---- MODULE Spec2Model ----
(***************************************************************************)
(* Model of the media analysis pipeline of src-tauri: the batch command    *)
(* analyse_file (lib.rs) and the per-file pipeline analyse_single          *)
(* (analyse.rs).  Strings whose characters the code inspects (names,       *)
(* paths, keywords, EXIF values) are sequences of one-character strings.   *)
(***************************************************************************)
EXTENDS Integers, Sequences, FiniteSets, TLC

\* ------------------------------------------------------------------------
\* Option<T>: None is the empty tuple, Some(x) the one-element tuple.
\* ------------------------------------------------------------------------
None == << >>
Some(x) == << x >>
IsSome(o) == o # << >>

\* ------------------------------------------------------------------------
\* Characters and strings
\* ------------------------------------------------------------------------
UpperCh == << "A","B","C","D","E","F","G","H","I","J","K","L","M",
              "N","O","P","Q","R","S","T","U","V","W","X","Y","Z" >>
LowerCh == << "a","b","c","d","e","f","g","h","i","j","k","l","m",
              "n","o","p","q","r","s","t","u","v","w","x","y","z" >>
DigitCh == << "0","1","2","3","4","5","6","7","8","9" >>

\* The characters of the model in increasing byte order (ASCII).
Ascii ==
  << " ", "+", "-", ".", "/" >> \o DigitCh \o << "=" >> \o UpperCh \o << "_" >> \o LowerCh

Range(s) == { s[i] : i \in 1..Len(s) }

CharOrd == [ c \in Range(Ascii) |-> CHOOSE i \in 1..Len(Ascii) : Ascii[i] = c ]

IsAlnum(c) == c \in Range(DigitCh) \cup Range(UpperCh) \cup Range(LowerCh)

\* char::to_ascii_lowercase / to_lowercase on the characters of the model
ToLowerChar(c) ==
  IF c \in Range(UpperCh)
    THEN LowerCh[CHOOSE i \in 1..Len(UpperCh) : UpperCh[i] = c]
    ELSE c

\* str::to_lowercase
ToLowercase(s) == [ i \in 1..Len(s) |-> ToLowerChar(s[i]) ]

\* str::eq_ignore_ascii_case
EqIgnoreAsciiCase(a, b) ==
  /\ Len(a) = Len(b)
  /\ \A i \in 1..Len(a) : ToLowerChar(a[i]) = ToLowerChar(b[i])

\* str::trim (the only white space of the model is the blank)
RECURSIVE TrimStart(_)
TrimStart(s) == IF s # << >> /\ Head(s) = " " THEN TrimStart(Tail(s)) ELSE s
RECURSIVE TrimEnd(_)
TrimEnd(s) ==
  IF s # << >> /\ s[Len(s)] = " " THEN TrimEnd(SubSeq(s, 1, Len(s) - 1)) ELSE s
Trim(s) == TrimEnd(TrimStart(s))

\* Ord for str: lexicographic on bytes
RECURSIVE StrLess(_, _)
StrLess(a, b) ==
  IF a = << >> THEN b # << >>
  ELSE IF b = << >> THEN FALSE
  ELSE IF Head(a) = Head(b) THEN StrLess(Tail(a), Tail(b))
  ELSE CharOrd[Head(a)] < CharOrd[Head(b)]

\* Index of the last occurrence of character c in s, 0 when there is none.
RECURSIVE LastIndexOf(_, _)
LastIndexOf(s, c) ==
  IF s = << >> THEN 0
  ELSE IF s[Len(s)] = c THEN Len(s)
  ELSE LastIndexOf(SubSeq(s, 1, Len(s) - 1), c)

\* ------------------------------------------------------------------------
\* Type classifier
\* ------------------------------------------------------------------------
ImageExts == { <<"p","n","g">>, <<"j","p","g">>, <<"j","p","e","g">>,
               <<"g","i","f">>, <<"b","m","p">>, <<"w","e","b","p">> }
VideoExts == { <<"m","p","4">>, <<"m","o","v">>, <<"a","v","i">>,
               <<"m","k","v">>, <<"w","e","b","m">> }
PdfExt == <<"p","d","f">>

\* file_name.rsplit('.').next(): the piece after the last '.', the whole
\* string when it holds no '.'; rsplit always yields a first piece.
RsplitDotFirst(s) == Some(SubSeq(s, LastIndexOf(s, ".") + 1, Len(s)))

get_type(file_name) ==
  LET piece == RsplitDotFirst(file_name) IN
  IF IsSome(piece)
    THEN LET ext == ToLowercase(piece[1]) IN
         IF ext = PdfExt THEN "Pdf"
         ELSE IF ext \in ImageExts THEN "Image"
         ELSE IF ext \in VideoExts THEN "Video"
         ELSE "Other"
    ELSE "Other"

\* out.meta.file_type = match ftype { ... }.to_string()
FileTypeTag(ftype) ==
  CASE ftype = "Pdf" -> "pdf"
    [] ftype = "Image" -> "image"
    [] ftype = "Video" -> "video"
    [] ftype = "Other" -> "other"

\* ------------------------------------------------------------------------
\* Keyword extractor
\* ------------------------------------------------------------------------
\* SPLIT_RE = [^A-Za-z0-9]+ ; Regex::split yields the pieces between the
\* separator runs, an empty piece included where the text starts or ends
\* with a separator.
RECURSIVE SplitFrom(_, _, _, _)
SplitFrom(s, i, cur, inSep) ==
  IF i > Len(s) THEN << cur >>
  ELSE IF IsAlnum(s[i]) THEN SplitFrom(s, i + 1, Append(cur, s[i]), FALSE)
  ELSE IF inSep THEN SplitFrom(s, i + 1, cur, TRUE)
  ELSE << cur >> \o SplitFrom(s, i + 1, << >>, TRUE)
SplitRe(s) == SplitFrom(s, 1, << >>, FALSE)

STOP == { <<"t","h","e">>, <<"a">>, <<"a","n">>, <<"a","n","d">>, <<"o","r">>,
          <<"o","f">>, <<"t","o">>, <<"i","n">>, <<"o","n">>, <<"f","o","r">>,
          <<"w","i","t","h">>, <<"b","y">>, <<"a","t">>, <<"f","r","o","m">>,
          <<"i","s">>, <<"i","t">>, <<"t","h","i","s">>, <<"t","h","a","t">>,
          <<"v">>, <<"v","s">>, <<"f","i","n","a","l">>, <<"c","o","p","y">>,
          <<"i","m","g">>, <<"p","h","o","t","o">>, <<"i","m","a","g","e">>,
          <<"v","i","d","e","o">>, <<"m","o","v","i","e">>, <<"c","l","i","p">>,
          <<"s","c","a","n">>, <<"p","a","g","e">>, <<"p","g">>, <<"d","o","c">> }

MinKeywordLen == 3

\* the filter of gather_keywords and maybe_push_kw
KeepWord(w) == Len(w) >= MinKeywordLen /\ w \notin STOP

RECURSIVE FilterMapWords(_)
FilterMapWords(pieces) ==
  IF pieces = << >> THEN << >>
  ELSE LET w == ToLowercase(Trim(Head(pieces))) IN
       (IF KeepWord(w) THEN << w >> ELSE << >>) \o FilterMapWords(Tail(pieces))

\* Vec::sort: insertion of each element into the sorted rest
RECURSIVE InsertSorted(_, _)
InsertSorted(w, v) ==
  IF v = << >> THEN << w >>
  ELSE IF StrLess(Head(v), w) THEN << Head(v) >> \o InsertSorted(w, Tail(v))
  ELSE << w >> \o v
RECURSIVE SortStrs(_)
SortStrs(v) == IF v = << >> THEN << >> ELSE InsertSorted(Head(v), SortStrs(Tail(v)))

\* Vec::dedup: drops an element equal to the one before it
RECURSIVE Dedup(_)
Dedup(v) ==
  IF Len(v) <= 1 THEN v
  ELSE IF v[1] = v[2] THEN Dedup(Tail(v))
  ELSE << v[1] >> \o Dedup(Tail(v))

gather_keywords(name) == Dedup(SortStrs(FilterMapWords(SplitRe(name))))

\* ------------------------------------------------------------------------
\* The output record (types.rs)
\* ------------------------------------------------------------------------
DefaultMetadata ==
  [ file_type |-> "", mime |-> None, size_bytes |-> None,
    created_at |-> None, modified_at |-> None ]
DefaultVideo ==
  [ width |-> None, height |-> None, duration_sec |-> None,
    fps |-> None, codec |-> None ]
DefaultPDF ==
  [ page_count |-> None, page0_width_pt |-> None, page0_height_pt |-> None ]
DefaultImage ==
  [ width |-> None, height |-> None, exif_datetime |-> None,
    phash |-> None, dominant_colors |-> << >> ]
DefaultTagging == [ tags |-> << >>, topics |-> << >>, raw_keywords |-> << >> ]
DefaultSuggested == [ rename |-> "", reason |-> "", confidence |-> 0 ]
DefaultMediaAnalysis ==
  [ meta |-> DefaultMetadata, video |-> DefaultVideo, pdf |-> DefaultPDF,
    image |-> DefaultImage, tagging |-> DefaultTagging,
    suggested |-> DefaultSuggested ]

\* Result<T, E>
Ok(v) == [ ok |-> TRUE, v |-> v ]
Err(e) == [ ok |-> FALSE, v |-> e ]

\* ------------------------------------------------------------------------
\* Path::extension and the mime guess
\* ------------------------------------------------------------------------
\* Path::file_name: the last component; none for an empty one or "..".
PathFileName(p) ==
  LET comp == SubSeq(p, LastIndexOf(p, "/") + 1, Len(p)) IN
  IF comp = << >> \/ comp = << ".", "." >> THEN None ELSE Some(comp)

\* Path::extension: none without a file name, without a '.', or when the only
\* '.' is the first character; else the piece after the last '.'.
PathExtension(p) ==
  LET fname == PathFileName(p) IN
  IF ~IsSome(fname) THEN None
  ELSE LET f == fname[1]
           d == LastIndexOf(f, ".") IN
       IF d <= 1 THEN None ELSE Some(SubSeq(f, d + 1, Len(f)))

\* MimeGuess::from_path(path).first_raw(): a table look-up of the path's
\* extension, letter case ignored.  A mime is the pair <<type, subtype>>.
MimeTable(ext) ==
  CASE ext = <<"p","n","g">> -> Some(<< "image", "png" >>)
    [] ext \in { <<"j","p","g">>, <<"j","p","e","g">> } -> Some(<< "image", "jpeg" >>)
    [] ext = <<"m","k","v">> -> Some(<< "video", "x-matroska" >>)
    [] ext = <<"m","p","4">> -> Some(<< "video", "mp4" >>)
    [] ext = <<"p","d","f">> -> Some(<< "application", "pdf" >>)
    [] ext = <<"t","x","t">> -> Some(<< "text", "plain" >>)
    [] OTHER -> None

MimeGuessFromPath(path) ==
  LET e == PathExtension(path) IN
  IF IsSome(e) THEN MimeTable(ToLowercase(e[1])) ELSE None

\* ------------------------------------------------------------------------
\* Numeric enrichers.  c is what the file system holds at the path:
\*   exists   whether fs::metadata succeeds
\*   dims     Some(<<w, h>>) when the image decoder accepts the file
\*   exif     Some(entries) when rexif parses the file
\*   probe    Some(report) when ffprobe can report on the file
\*   pdf      Some(pages) when lopdf loads the file
\* ------------------------------------------------------------------------
enrich_image_dims(c, out) ==
  IF IsSome(c.dims)
    THEN [ out EXCEPT !.image.width = Some(c.dims[1][1]),
                      !.image.height = Some(c.dims[1][2]) ]
    ELSE out

\* one iteration of the loop over exif.entries
ExifEntry(entry, out) ==
  IF entry.tag = "DateTimeOriginal"
    THEN LET dt_str == Trim(entry.value) IN
         IF dt_str # << >> THEN [ out EXCEPT !.image.exif_datetime = Some(dt_str) ]
         ELSE out
  ELSE IF entry.tag \in { "Make", "Model" }
    THEN LET s == ToLowercase(entry.value) IN
         IF s # << >> /\ ~(\E k \in Range(out.tagging.raw_keywords) : k = s)
           THEN [ out EXCEPT !.tagging.raw_keywords = Append(@, s) ]
           ELSE out
  ELSE out

RECURSIVE ExifEntries(_, _)
ExifEntries(entries, out) ==
  IF entries = << >> THEN out
  ELSE ExifEntries(Tail(entries), ExifEntry(Head(entries), out))

enrich_image_exif_keywords(c, out) ==
  IF IsSome(c.exif) THEN ExifEntries(c.exif[1], out) ELSE out

\* parse_rational on the text "a/b", both parts already read as numbers:
\* the rational a/b is kept as the pair <<a, b>>.
parse_rational(r) == IF r[2] = 0 THEN None ELSE Some(r)

FirstVideoStream(streams) ==
  LET idx == { k \in 1..Len(streams) : streams[k].codec_type = Some("video") } IN
  IF idx = {} THEN None
  ELSE Some(streams[CHOOSE k \in idx : \A m \in idx : k <= m])

\* run: how the external prober went ("notfound", "spawn", "exit", "json",
\* "ok"); probe is Some(parsed stdout) when the prober can report on the file.
enrich_video_ffprobe(run, probe, out) ==
  IF run = "notfound" THEN << Err("ffprobe not found"), out >>
  ELSE IF run = "spawn" THEN << Err("spawn"), out >>
  ELSE IF run = "exit" \/ ~IsSome(probe) THEN << Err("ffprobe failed"), out >>
  ELSE IF run = "json" THEN << Err("json"), out >>
  ELSE
    LET report == probe[1]
        o1 == IF IsSome(report.format) /\ IsSome(report.format[1].duration)
                   /\ report.format[1].duration[1].numeric
                THEN [ out EXCEPT !.video.duration_sec =
                                     Some(report.format[1].duration[1].secs) ]
                ELSE out
        vs == IF IsSome(report.streams) THEN FirstVideoStream(report.streams[1])
              ELSE None
        o2 == IF IsSome(vs)
                THEN LET o == [ o1 EXCEPT !.video.codec = vs[1].codec_name,
                                          !.video.width = vs[1].width,
                                          !.video.height = vs[1].height ] IN
                     IF IsSome(vs[1].avg_frame_rate)
                          /\ IsSome(parse_rational(vs[1].avg_frame_rate[1]))
                       THEN [ o EXCEPT !.video.fps =
                                          parse_rational(vs[1].avg_frame_rate[1]) ]
                       ELSE o
                ELSE o1
    IN << Ok("unit"), o2 >>

num_from_pdf(obj) ==
  IF obj.t \in { "Integer", "Real" } THEN Ok(obj.v) ELSE Err("not a number")

MediaBoxLen == 4

\* enrich_pdf_lopdf storing the width before the height is read
enrich_pdf_lopdf_WidthFirst(c, out) ==
  IF ~IsSome(c.pdf) THEN << Err("pdf load"), out >>
  ELSE
    LET pages == c.pdf[1]
        o1 == [ out EXCEPT !.pdf.page_count = Some(Len(pages)) ]
    IN
    IF pages # << >> /\ IsSome(pages[1]) /\ IsSome(pages[1][1].MediaBox)
         /\ Len(pages[1][1].MediaBox[1]) = MediaBoxLen
      THEN LET arr == pages[1][1].MediaBox[1]
               n2 == num_from_pdf(arr[3])
               n0 == num_from_pdf(arr[1])
               n3 == num_from_pdf(arr[4])
               n1 == num_from_pdf(arr[2])
           IN
           IF ~n2.ok THEN << n2, o1 >>
           ELSE IF ~n0.ok THEN << n0, o1 >>
           ELSE LET o2 == [ o1 EXCEPT !.pdf.page0_width_pt = Some(n2.v - n0.v) ] IN
                IF ~n3.ok THEN << n3, o2 >>
                ELSE IF ~n1.ok THEN << n1, o2 >>
                ELSE << Ok("unit"),
                        [ o2 EXCEPT !.pdf.page0_height_pt = Some(n3.v - n1.v) ] >>
      ELSE << Ok("unit"), o1 >>

\* pages: the page objects in page order; a page is Some(dictionary) or None
\* when the object is no dictionary; a dictionary holds MediaBox as
\* Some(array) or None (no entry, or no array).
enrich_pdf_lopdf(c, out) ==
  IF ~IsSome(c.pdf) THEN << Err("pdf load"), out >>
  ELSE
    LET pages == c.pdf[1]
        o1 == [ out EXCEPT !.pdf.page_count = Some(Len(pages)) ]
    IN
    IF pages # << >> /\ IsSome(pages[1]) /\ IsSome(pages[1][1].MediaBox)
         /\ Len(pages[1][1].MediaBox[1]) = MediaBoxLen
      THEN LET arr == pages[1][1].MediaBox[1]
               n2 == num_from_pdf(arr[3])
               n0 == num_from_pdf(arr[1])
               n3 == num_from_pdf(arr[4])
               n1 == num_from_pdf(arr[2])
           IN
           IF ~n2.ok THEN << n2, o1 >>
           ELSE IF ~n0.ok THEN << n0, o1 >>
           ELSE IF ~n3.ok THEN << n3, o1 >>
           ELSE IF ~n1.ok THEN << n1, o1 >>
           ELSE << Ok("unit"),
                   [ o1 EXCEPT !.pdf.page0_width_pt = Some(n2.v - n0.v),
                               !.pdf.page0_height_pt = Some(n3.v - n1.v) ] >>
      ELSE << Ok("unit"), o1 >>

\* ------------------------------------------------------------------------
\* Preview builder
\* ------------------------------------------------------------------------
DefaultMediaPreviews ==
  [ image_b64 |-> None, video_frames_b64 |-> None, pdf_page0_b64 |-> None ]

ImageMaxSide == 2048
MaxFrames == 6
PdfMaxWidth == 1400

\* (a * b / c).round() on positive numbers
RoundDiv(a, b, c) == (2 * a * b + c) \div (2 * c)
MaxOf(a, b) == IF a >= b THEN a ELSE b

\* The payload is the PNG of the resized picture; it is kept as its size.
read_and_downscale_image_b64(c, max_side) ==
  IF ~IsSome(c.dims) THEN Err("image open")
  ELSE LET w == c.dims[1][1]
           h == c.dims[1][2]
           n == IF MaxOf(w, h) > max_side
                  THEN IF w >= h
                         THEN << max_side, MaxOf(RoundDiv(h, max_side, w), 1) >>
                         ELSE << MaxOf(RoundDiv(w, max_side, h), 1), max_side >>
                  ELSE << w, h >>
       IN Ok([ fmt |-> "png", w |-> n[1], h |-> n[2] ])

\* base64::encode: three bytes give four characters of the alphabet, a rest
\* of one or two bytes is padded with '='
B64Alphabet == UpperCh \o LowerCh \o DigitCh \o << "+", "/" >>
B64Char(n) == B64Alphabet[n + 1]
RECURSIVE Base64Encode(_)
Base64Encode(b) ==
  IF b = << >> THEN << >>
  ELSE IF Len(b) = 1
    THEN LET n == b[1] * 16 IN
         << B64Char(n \div 64), B64Char(n % 64), "=", "=" >>
  ELSE IF Len(b) = 2
    THEN LET n == (b[1] * 256 + b[2]) * 4 IN
         << B64Char(n \div 4096), B64Char((n \div 64) % 64), B64Char(n % 64), "=" >>
  ELSE LET n == b[1] * 65536 + b[2] * 256 + b[3] IN
       << B64Char(n \div 262144), B64Char((n \div 4096) % 64),
          B64Char((n \div 64) % 64), B64Char(n % 64) >>
         \o Base64Encode(SubSeq(b, 4, Len(b)))

JpgExt == <<"j","p","g">>

\* A scratch directory entry is [name, bytes]: the file's name and content.
\* The loop over fs::read_dir: the base64 text of every .jpg file, in the
\* order of the listing.
RECURSIVE JpgFrames(_)
JpgFrames(listing) ==
  IF listing = << >> THEN << >>
  ELSE (IF PathExtension(Head(listing).name) = Some(JpgExt)
          THEN << Base64Encode(Head(listing).bytes) >> ELSE << >>)
         \o JpgFrames(Tail(listing))

Truncate(v, n) == IF Len(v) > n THEN SubSeq(v, 1, n) ELSE v

\* run: how the external steps went; c.frames is Some(directory listing) when
\* the frame extractor succeeds on the file, in the order read_dir yields.
extract_video_keyframes_b64(run, c, max_frames) ==
  IF run = "notfound" THEN Ok(<< >>)
  ELSE IF run = "tempdir" THEN Err("tempdir")
  ELSE IF run = "spawn" THEN Err("ffmpeg exec")
  ELSE IF run = "exit" \/ ~IsSome(c.frames) THEN Ok(<< >>)
  ELSE IF run = "readdir" THEN Err("readdir")
  ELSE IF run = "dirent" THEN Err("dirent")
  ELSE IF run = "readframe" /\ JpgFrames(c.frames[1]) # << >> THEN Err("read frame")
  ELSE Ok(Truncate(SortStrs(JpgFrames(c.frames[1])), max_frames))

\* c.raster is Some(<<w, h>>) when the rasterizer renders page 1 of the file.
rasterize_pdf_page0_b64(run, c) ==
  IF run = "notfound" THEN Ok(None)
  ELSE IF run = "tempdir" THEN Err("tempdir")
  ELSE IF run = "spawn" THEN Err("pdftoppm exec")
  ELSE IF run \in { "exit", "nooutput" } \/ ~IsSome(c.raster) THEN Ok(None)
  ELSE IF run = "openraster" THEN Err("open raster")
  ELSE LET w == c.raster[1][1]
           h == c.raster[1][2]
           n == IF w > PdfMaxWidth
                  THEN << PdfMaxWidth, MaxOf(RoundDiv(h, PdfMaxWidth, w), 1) >>
                  ELSE << w, h >>
       IN Ok(Some([ fmt |-> "png", w |-> n[1], h |-> n[2] ]))

\* mime.unwrap_or("").to_lowercase(): the table's names are lower case already
MimeLower(mime) == IF IsSome(mime) THEN mime[1] ELSE << "", "" >>

\* Path::new(&file.name).extension()...unwrap_or("").to_lowercase()
NameExt(name) ==
  LET e == PathExtension(name) IN
  ToLowercase(IF IsSome(e) THEN e[1] ELSE << >>)

is_image(name, mime) == MimeLower(mime)[1] = "image" \/ NameExt(name) \in ImageExts
is_video(name, mime) == MimeLower(mime)[1] = "video" \/ NameExt(name) \in VideoExts
is_pdf(name, mime) ==
  MimeLower(mime) = << "application", "pdf" >> \/ NameExt(name) = PdfExt

\* the branches tested in another order
PreviewBranch_PdfFirst(name, mime) ==
  IF is_pdf(name, mime) THEN "pdf"
  ELSE IF is_image(name, mime) THEN "image"
  ELSE IF is_video(name, mime) THEN "video"
  ELSE "none"

\* The branch prepare_media_previews takes.
PreviewBranch(name, mime) ==
  IF is_image(name, mime) THEN "image"
  ELSE IF is_video(name, mime) THEN "video"
  ELSE IF is_pdf(name, mime) THEN "pdf"
  ELSE "none"

prepare_media_previews(file, mime, c, run) ==
  LET branch == PreviewBranch(file.name, mime) IN
  IF branch = "image"
    THEN LET r == read_and_downscale_image_b64(c, ImageMaxSide) IN
         IF r.ok THEN Ok([ DefaultMediaPreviews EXCEPT !.image_b64 = Some(r.v) ])
         ELSE r
  ELSE IF branch = "video"
    THEN LET r == extract_video_keyframes_b64(run, c, MaxFrames) IN
         IF r.ok THEN Ok([ DefaultMediaPreviews EXCEPT !.video_frames_b64 = Some(r.v) ])
         ELSE r
  ELSE IF branch = "pdf"
    THEN LET r == rasterize_pdf_page0_b64(run, c) IN
         IF r.ok THEN Ok([ DefaultMediaPreviews EXCEPT !.pdf_page0_b64 = r.v ])
         ELSE r
  ELSE Ok(DefaultMediaPreviews)

\* ------------------------------------------------------------------------
\* AI enrichment
\* ------------------------------------------------------------------------
AiTagIn(file, m, raw_keywords, previews) ==
  [ name |-> file.name, mime |-> m.meta.mime, size_bytes |-> m.meta.size_bytes,
    created_at |-> m.meta.created_at, modified_at |-> m.meta.modified_at,
    file_type |-> m.meta.file_type,
    image_width |-> m.image.width, image_height |-> m.image.height,
    video_width |-> m.video.width, video_height |-> m.video.height,
    video_duration_sec |-> m.video.duration_sec, video_fps |-> m.video.fps,
    video_codec |-> m.video.codec, pdf_page_count |-> m.pdf.page_count,
    image_b64 |-> previews.image_b64,
    video_frames_b64 |-> previews.video_frames_b64,
    pdf_page0_b64 |-> previews.pdf_page0_b64,
    raw_keywords |-> raw_keywords ]

\* maybe_ai_enrichment reading the body whatever the status
maybe_ai_enrichment_AnyStatus(endpoint, reply) ==
  IF ~IsSome(endpoint) THEN None
  ELSE IF reply.t \in { "ok", "status" } THEN Some(reply.body)
  ELSE None

\* endpoint: the environment variable TAGGER_ENDPOINT, None when unset.
\* reply: what the single POST comes back with: [t, body], t one of
\* "transport", "status", "malformed", "ok".
maybe_ai_enrichment(endpoint, reply) ==
  IF ~IsSome(endpoint) THEN None
  ELSE IF reply.t = "ok" THEN Some(reply.body)
  ELSE None

\* the loop over extra_kw comparing with == instead of eq_ignore_ascii_case
RECURSIVE MergeKeywords_CaseSensitive(_, _)
MergeKeywords_CaseSensitive(raw_keywords, extra_kw) ==
  IF extra_kw = << >> THEN raw_keywords
  ELSE LET k == Head(extra_kw) IN
       MergeKeywords_CaseSensitive(
         IF ~(\E x \in Range(raw_keywords) : x = k)
           THEN Append(raw_keywords, k) ELSE raw_keywords,
         Tail(extra_kw))

\* the loop over extra_kw putting a new keyword in front
RECURSIVE MergeKeywords_PushFront(_, _)
MergeKeywords_PushFront(raw_keywords, extra_kw) ==
  IF extra_kw = << >> THEN raw_keywords
  ELSE LET k == Head(extra_kw) IN
       MergeKeywords_PushFront(
         IF ~(\E x \in Range(raw_keywords) : EqIgnoreAsciiCase(x, k))
           THEN << k >> \o raw_keywords ELSE raw_keywords,
         Tail(extra_kw))

\* the loop over extra_kw
RECURSIVE MergeKeywords(_, _)
MergeKeywords(raw_keywords, extra_kw) ==
  IF extra_kw = << >> THEN raw_keywords
  ELSE LET k == Head(extra_kw) IN
       MergeKeywords(
         IF ~(\E x \in Range(raw_keywords) : EqIgnoreAsciiCase(x, k))
           THEN Append(raw_keywords, k) ELSE raw_keywords,
         Tail(extra_kw))

\* the body of `if let Some(ai) = ...` and the final assignment of
\* out.tagging.raw_keywords; gives <<out, raw_keywords>>
MergeAi(out, raw_keywords, ai) ==
  LET o1 == IF IsSome(ai) /\ IsSome(ai[1].tags)
              THEN [ out EXCEPT !.tagging.tags = ai[1].tags[1] ] ELSE out
      o2 == IF IsSome(ai) /\ IsSome(ai[1].topics)
              THEN [ o1 EXCEPT !.tagging.topics = ai[1].topics[1] ] ELSE o1
      kw == IF IsSome(ai) /\ IsSome(ai[1].raw_keywords)
              THEN MergeKeywords(raw_keywords, ai[1].raw_keywords[1])
              ELSE raw_keywords
      o3 == IF IsSome(ai) /\ IsSome(ai[1].suggested)
                 /\ ai[1].suggested[1].rename # ""
              THEN [ o2 EXCEPT !.suggested = ai[1].suggested[1] ] ELSE o2
  IN << [ o3 EXCEPT !.tagging.raw_keywords = kw ], kw >>

\* ------------------------------------------------------------------------
\* Inputs: display names, paths, what the file system holds, AI replies
\* ------------------------------------------------------------------------
Names ==
  { <<"S","u","n","_","s","u","n",".","J","P","G">>,
    <<"c","l","i","p",".","m","p","4">>,
    <<"d","o","c",".","p","d","f">>,
    <<"n","o","t","e","s",".","t","x","t">>,
    <<"p","n","g">>,
    <<".","m","o","v">> }

Paths ==
  { <<"/","m","/","a",".","p","n","g">>,
    <<"/","m","/","b",".","M","K","V">>,
    <<"/","m","/","c",".","p","d","f">>,
    <<"/","m","/","d">> }

NoFile ==
  [ exists |-> FALSE, size |-> 0, created |-> None, dims |-> None, exif |-> None,
    probe |-> None, pdf |-> None, frames |-> None, raster |-> None ]
Garbage == [ NoFile EXCEPT !.exists = TRUE, !.size = 7, !.created = Some("t0") ]

ImageWithExif ==
  [ Garbage EXCEPT
      !.dims = Some(<< 4000, 2000 >>),
      !.exif = Some(<< [ tag |-> "Make", value |-> <<"C","a","n","o","n">> ],
                       [ tag |-> "DateTimeOriginal", value |-> <<" ","2","0","2","4">> ],
                       [ tag |-> "Model", value |-> <<"E","O","S">> ] >>) ]
ImagePlain == [ Garbage EXCEPT !.dims = Some(<< 640, 480 >>), !.created = None ]

FfReport ==
  [ format |-> Some([ duration |-> Some([ numeric |-> TRUE, secs |-> 12 ]) ]),
    streams |-> Some(<< [ codec_type |-> Some("audio"), codec_name |-> Some("aac"),
                          width |-> None, height |-> None, avg_frame_rate |-> None ],
                        [ codec_type |-> Some("video"), codec_name |-> Some("h264"),
                          width |-> Some(1920), height |-> Some(1080),
                          avg_frame_rate |-> Some(<< 30000, 1001 >>) ] >>) ]
\* the file kf-0<n>.jpg the frame extractor writes for the pattern kf-%02d.jpg
KeyFrame(n, bytes) ==
  [ name |-> << "k", "f", "-", "0", n, ".", "j", "p", "g" >>, bytes |-> bytes ]
VideoFile ==
  [ Garbage EXCEPT
      !.probe = Some(FfReport),
      !.frames = Some(<< KeyFrame("1", << 255, 216, 255, 200 >>),
                         KeyFrame("2", << 255, 216, 255, 16 >>),
                         KeyFrame("3", << 255, 216, 255, 16, 7 >>) >>) ]

Num(n) == [ t |-> "Integer", v |-> n ]
PdfName == [ t |-> "Name", v |-> 0 ]
PdfGood ==
  [ Garbage EXCEPT
      !.pdf = Some(<< Some([ MediaBox |-> Some(<< Num(0), Num(0), Num(612), Num(792) >>) ]),
                      Some([ MediaBox |-> None ]) >>),
      !.raster = Some(<< 1700, 2200 >>) ]
PdfBadBox ==
  [ Garbage EXCEPT
      !.pdf = Some(<< Some([ MediaBox |-> Some(<< Num(0), Num(0), Num(612), PdfName >>) ]) >>),
      !.raster = Some(<< 1240, 1754 >>) ]

Contents ==
  { NoFile, Garbage, ImageWithExif, ImagePlain, VideoFile, PdfGood, PdfBadBox }

\* replies of the AI service
AiKwPool == { <<"S","U","N">>, <<"s","e","a">>, <<"S","e","a">> }
MaxAiKw == 2
AiKwLists == UNION { [ 1..n -> AiKwPool ] : n \in 0..MaxAiKw }
AiSuggestions ==
  { [ rename |-> "", reason |-> "none", confidence |-> 0 ],
    [ rename |-> "sunset", reason |-> "content", confidence |-> 1 ] }
\* every combination of tags, topics and suggested without keywords, and
\* every keyword list alone or with all the other fields
AiBodies ==
  [ tags : { None, Some(<< "beach" >>) },
    topics : { None, Some(<< "travel" >>) },
    raw_keywords : { None },
    suggested : { None } \cup { Some(g) : g \in AiSuggestions } ]
  \cup
  [ tags : { Some(<< "beach" >>) }, topics : { Some(<< "travel" >>) },
    raw_keywords : { Some(l) : l \in AiKwLists },
    suggested : { Some(g) : g \in AiSuggestions } ]
  \cup
  [ tags : { None }, topics : { None },
    raw_keywords : { Some(l) : l \in AiKwLists },
    suggested : { None } ]
EmptyBody ==
  [ tags |-> None, topics |-> None, raw_keywords |-> None, suggested |-> None ]
\* a well-formed body, as an error status may carry one too
FullBody ==
  [ tags |-> Some(<< "beach" >>), topics |-> Some(<< "travel" >>),
    raw_keywords |-> Some(<< <<"s","e","a">> >>),
    suggested |-> Some([ rename |-> "sunset", reason |-> "content", confidence |-> 1 ]) ]
\* t: "transport" (no answer), "status" (a non-success status), "malformed"
\* (a body that is no AiTagOut), "ok"; "none" stands for no request made
AiReplies ==
  { [ t |-> "transport", body |-> EmptyBody ], [ t |-> "malformed", body |-> EmptyBody ],
    [ t |-> "status", body |-> FullBody ] }
    \cup { [ t |-> "ok", body |-> b ] : b \in AiBodies }
NoReply == [ t |-> "none", body |-> EmptyBody ]

ProbeRuns == { "notfound", "spawn", "exit", "json", "ok" }
PreviewRuns ==
  { "notfound", "tempdir", "spawn", "exit", "nooutput", "readdir", "dirent",
    "readframe", "openraster", "ok" }

\* batches of several files: a few files, the AI endpoint unset
MaxBatch == 3
BatchFiles ==
  { << [ name |-> <<"S","u","n","_","s","u","n",".","J","P","G">>,
         path |-> <<"/","m","/","a",".","p","n","g">> ], ImagePlain >>,
    << [ name |-> <<"S","u","n","_","s","u","n",".","J","P","G">>,
         path |-> <<"/","m","/","d">> ], NoFile >>,
    << [ name |-> <<"n","o","t","e","s",".","t","x","t">>,
         path |-> <<"/","m","/","d">> ], NoFile >>,
    << [ name |-> <<"d","o","c",".","p","d","f">>,
         path |-> <<"/","m","/","c",".","p","d","f">> ], PdfGood >> }
Batches == UNION { [ 1..n -> BatchFiles ] : n \in 0..MaxBatch }

\* ------------------------------------------------------------------------
\* State
\* ------------------------------------------------------------------------
VARIABLES
  files,        \* analyse_file's argument
  disk,         \* disk[k]: what the file system holds at files[k].path
  endpoint,     \* the environment variable TAGGER_ENDPOINT
  i,            \* position of the iterator over files
  pc,           \* where the command is
  mime, ftype,  \* locals of analyse_single
  out, raw_keywords, previews, ai,
  reply,        \* what the AI endpoint answered, NoReply when it was not asked
  enriched,     \* result of the numeric enricher called, None when it gives none
  req,          \* the request sent to the AI endpoint, None when none was sent
  ret,          \* what analyse_single returned
  ana,          \* the records collected so far
  result        \* what analyse_file returned, None before it returns

vars == << files, disk, endpoint, i, pc, mime, ftype, out, raw_keywords,
           previews, ai, reply, enriched, req, ret, ana, result >>

locals == << mime, ftype, out, raw_keywords, previews, ai, reply, enriched, req, ret >>

InitLocals ==
  /\ mime = None /\ ftype = "Other" /\ out = DefaultMediaAnalysis
  /\ raw_keywords = << >> /\ previews = DefaultMediaPreviews /\ ai = None
  /\ reply = NoReply /\ enriched = None /\ req = None /\ ret = None

Init ==
  /\ \/ /\ \E n \in Names, p \in Paths : files = << [ name |-> n, path |-> p ] >>
        /\ \E c \in Contents : disk = << c >>
        /\ endpoint \in { None, Some("http://tagger") }
     \/ /\ \E b \in Batches :
             /\ files = [ k \in 1..Len(b) |-> b[k][1] ]
             /\ disk = [ k \in 1..Len(b) |-> b[k][2] ]
        /\ endpoint = None
  /\ i = 1 /\ pc = "next" /\ ana = << >> /\ result = None
  /\ InitLocals

file == files[i]
content == disk[i]

\* analyse_single, "Basic metadata" to "File type"
BasicMetadata ==
  /\ pc = "next" /\ i <= Len(files)
  /\ mime' = MimeGuessFromPath(file.path)
  /\ ftype' = get_type(file.name)
  /\ out' = [ DefaultMediaAnalysis EXCEPT
                !.meta.mime = mime',
                !.meta.size_bytes = IF content.exists THEN Some(content.size) ELSE None,
                !.meta.created_at = IF content.exists THEN content.created ELSE None,
                !.meta.modified_at = IF content.exists THEN Some("t1") ELSE None,
                !.meta.file_type = FileTypeTag(ftype') ]
  /\ raw_keywords' = << >> /\ previews' = DefaultMediaPreviews /\ ai' = None
  /\ reply' = NoReply /\ enriched' = None /\ req' = None /\ ret' = None
  /\ pc' = "enrich"
  /\ UNCHANGED << files, disk, endpoint, i, ana, result >>

\* the match on ftype with the image dimensions read for every file
Enrich_DimsAlways(ft, c, run, o) ==
  LET o0 == enrich_image_dims(c, o) IN
  IF ft = "Image" THEN << None, enrich_image_exif_keywords(c, o0) >>
  ELSE IF ft = "Video"
    THEN LET r == enrich_video_ffprobe(run, c.probe, o0) IN << Some(r[1]), r[2] >>
  ELSE IF ft = "Pdf"
    THEN LET r == enrich_pdf_lopdf(c, o0) IN << Some(r[1]), r[2] >>
  ELSE << None, o0 >>

\* the match on ftype: <<result of the enricher, out>>
Enrich(ft, c, run, o) ==
  IF ft = "Image" THEN << None, enrich_image_exif_keywords(c, enrich_image_dims(c, o)) >>
  ELSE IF ft = "Video"
    THEN LET r == enrich_video_ffprobe(run, c.probe, o) IN << Some(r[1]), r[2] >>
  ELSE IF ft = "Pdf"
    THEN LET r == enrich_pdf_lopdf(c, o) IN << Some(r[1]), r[2] >>
  ELSE << None, o >>

\* analyse_single, "Local numeric enrichment"
LocalEnrichment ==
  /\ pc = "enrich"
  /\ \E run \in ProbeRuns :
       LET r == Enrich(ftype, content, run, out) IN
       /\ enriched' = r[1]
       /\ out' = r[2]
  /\ pc' = "seed"
  /\ UNCHANGED << files, disk, endpoint, i, mime, ftype, raw_keywords, previews,
                  ai, reply, req, ret, ana, result >>

\* analyse_single, "Seed raw keywords"
SeedKeywords ==
  /\ pc = "seed"
  /\ raw_keywords' = gather_keywords(file.name)
  /\ pc' = "preview"
  /\ UNCHANGED << files, disk, endpoint, i, mime, ftype, out, previews, ai,
                  reply, enriched, req, ret, ana, result >>

Reverse(v) == [ k \in 1..Len(v) |-> v[Len(v) + 1 - k] ]
Rotate(v) == IF v = << >> THEN v ELSE Append(Tail(v), Head(v))

\* fs::read_dir yields the entries in an order the platform chooses: the
\* content with its scratch directory listed in some orders
ListingOrders(c) ==
  IF IsSome(c.frames)
    THEN { [ c EXCEPT !.frames = Some(l) ] :
             l \in { c.frames[1], Reverse(c.frames[1]), Rotate(c.frames[1]) } }
    ELSE { c }

\* analyse_single, "Build real-media previews": `?` returns the error
BuildPreviews ==
  /\ pc = "preview"
  /\ \E run \in PreviewRuns, c \in ListingOrders(content) :
       LET r == prepare_media_previews(file, mime, c, run) IN
       IF r.ok THEN /\ previews' = r.v /\ ret' = ret /\ pc' = "ai"
       ELSE /\ previews' = previews /\ ret' = Some(Err(r.v)) /\ pc' = "ret"
  /\ UNCHANGED << files, disk, endpoint, i, mime, ftype, out, raw_keywords, ai,
                  reply, enriched, req, ana, result >>

\* analyse_single, the call of maybe_ai_enrichment
AiCall ==
  /\ pc = "ai"
  /\ \E r \in (IF IsSome(endpoint) THEN AiReplies ELSE { NoReply }) :
       /\ reply' = r
       /\ ai' = maybe_ai_enrichment(endpoint, r)
  /\ req' = IF IsSome(endpoint)
              THEN Some(AiTagIn(file, out, raw_keywords, previews)) ELSE None
  /\ pc' = "merge"
  /\ UNCHANGED << files, disk, endpoint, i, mime, ftype, out, raw_keywords,
                  previews, enriched, ret, ana, result >>

\* analyse_single, the merge of the AI answer up to Ok(out)
MergeAndReturn ==
  /\ pc = "merge"
  /\ LET m == MergeAi(out, raw_keywords, ai) IN
       /\ out' = m[1]
       /\ raw_keywords' = m[2]
       /\ ret' = Some(Ok(m[1]))
  /\ pc' = "ret"
  /\ UNCHANGED << files, disk, endpoint, i, mime, ftype, previews, ai, reply,
                  enriched, req, ana, result >>

\* analyse_file: .map(|f| analyse_single(f).unwrap())
Unwrap ==
  /\ pc = "ret"
  /\ IF ret[1].ok
       THEN /\ ana' = Append(ana, ret[1].v) /\ i' = i + 1 /\ pc' = "next"
       ELSE /\ ana' = ana /\ i' = i /\ pc' = "panicked"
  /\ UNCHANGED << files, disk, endpoint, locals, result >>

\* analyse_file: .collect() and the return of ana
Collect ==
  /\ pc = "next" /\ i > Len(files)
  /\ result' = Some(ana)
  /\ pc' = "end"
  /\ UNCHANGED << files, disk, endpoint, i, locals, ana >>

Next ==
  \/ BasicMetadata \/ LocalEnrichment \/ SeedKeywords \/ BuildPreviews
  \/ AiCall \/ MergeAndReturn \/ Unwrap \/ Collect

Spec == Init /\ [][Next]_vars
\* ------------------------------------------------------------------------
\* Properties
\* ------------------------------------------------------------------------
\* analyse_single has returned for files[i]; ret[1] is its result
Returned == pc = "ret"
ReturnedOk == pc = "ret" /\ ret[1].ok
record == ret[1].v

Kinds == { "image", "video", "pdf" }
SubRecord(r, k) ==
  CASE k = "image" -> r.image [] k = "video" -> r.video [] k = "pdf" -> r.pdf
DefaultSub(k) ==
  CASE k = "image" -> DefaultImage [] k = "video" -> DefaultVideo
    [] k = "pdf" -> DefaultPDF
Populated(r, k) == SubRecord(r, k) # DefaultSub(k)

\* C1: in a batch of 3 files whose 2nd path does not exist, the failure of
\* the 2nd file's pipeline does not stop the batch: the command does not
\* abort at file 2, so the records of files 1 and 3 are still returned.
C1_BatchIndependence ==
  (Len(files) = 3 /\ disk[1].exists /\ ~disk[2].exists /\ disk[3].exists /\ i = 2)
    => pc # "panicked"

\* C2: analyse_single never returns an error: whatever fails inside a stage,
\* its result is a record.
C2_NeverAnError == Returned => ret[1].ok

\* C3 (as stated): in every record returned, exactly one of the image, video
\* and pdf sub-records is populated, the one matching meta.file_type.
C3_ExactlyOnePopulated ==
  ReturnedOk =>
    /\ Cardinality({ k \in Kinds : Populated(record, k) }) = 1
    /\ \A k \in Kinds : Populated(record, k) => k = record.meta.file_type

\* C3 (amended): in every record returned, a sub-record that does not match
\* meta.file_type is at its default value, so at most one is populated.
C3_OnlyMatchingPopulated ==
  ReturnedOk =>
    /\ \A k \in Kinds : Populated(record, k) => k = record.meta.file_type
    /\ Cardinality({ k \in Kinds : Populated(record, k) }) <= 1

\* a record with the video sub-record populated for a name classified video
C3_Witness ==
  ReturnedOk /\ record.meta.file_type = "video" /\ Populated(record, "video")
    /\ content.dims = None

\* the camera make and model strings of the file's EXIF data, lower-cased
ExifCameraKeywords(c) ==
  IF IsSome(c.exif)
    THEN { ToLowercase(c.exif[1][k].value) :
             k \in { m \in 1..Len(c.exif[1]) :
                       /\ c.exif[1][m].tag \in { "Make", "Model" }
                       /\ c.exif[1][m].value # << >> } }
    ELSE {}

\* C4: for an image whose EXIF data has a camera make or model, the record
\* returned holds the lower-cased make and model among its raw_keywords.
C4_ExifKeywordsReturned ==
  (ReturnedOk /\ ftype = "Image") =>
    ExifCameraKeywords(content) \subseteq Range(record.tagging.raw_keywords)

\* the classification the specification describes: Other for a name without
\* '.', else by the lower-cased text after the last '.'
SpecifiedType(name) ==
  IF "." \notin Range(name) THEN "Other"
  ELSE LET ext == ToLowercase(SubSeq(name, LastIndexOf(name, ".") + 1, Len(name))) IN
       IF ext = PdfExt THEN "Pdf"
       ELSE IF ext \in ImageExts THEN "Image"
       ELSE IF ext \in VideoExts THEN "Video"
       ELSE "Other"

\* C5: get_type classifies by the text after the last '.', letter case
\* ignored, and gives Other for every name without a '.'.
C5_Classifier ==
  pc \in { "enrich", "seed", "preview", "ai", "merge", "ret" } =>
    ftype = SpecifiedType(file.name)

NoCaseDuplicates(v) ==
  \A a, b \in 1..Len(v) : a # b => ToLowercase(v[a]) # ToLowercase(v[b])

NoEnrichment == ~IsSome(endpoint) \/ reply.t # "ok"

\* C7: when the AI stage gives no enrichment, the record returned holds local
\* data only: no tags, no topics, the default suggestion, and the keywords
\* seeded from the name.
C7_LocalOnly ==
  /\ (ReturnedOk /\ NoEnrichment) =>
       /\ record.tagging.tags = << >>
       /\ record.tagging.topics = << >>
       /\ record.suggested = DefaultSuggested
       /\ record.tagging.raw_keywords = gather_keywords(file.name)
  /\ (Returned /\ reply.t \in { "transport", "status", "malformed" }) => ret[1].ok

\* a record returned after the endpoint answered with an error status
C7_Witness ==
  ReturnedOk /\ IsSome(endpoint) /\ reply.t = "status"
    /\ record.tagging.raw_keywords # << >>

EnricherFailed == IsSome(enriched) /\ ~enriched[1].ok

\* C9 (as stated): after an enricher failed, every field of out.video and
\* out.pdf is absent, page_count included.
C9_FailureLeavesDefault ==
  (pc \in { "seed", "preview", "ai", "merge", "ret" } /\ EnricherFailed) =>
    out.video = DefaultVideo /\ out.pdf = DefaultPDF

\* C9 (amended): after an enricher failed, every field of out.video is
\* absent and so are the page width and height of out.pdf; page_count is
\* absent unless the failure is a MediaBox entry that is no number, and then
\* it holds the number of pages.
C9_FailureLeavesGeometryAbsent ==
  (pc \in { "seed", "preview", "ai", "merge", "ret" } /\ EnricherFailed) =>
    /\ out.video = DefaultVideo
    /\ out.pdf.page0_width_pt = None /\ out.pdf.page0_height_pt = None
    /\ IF enriched[1].v = "not a number"
         THEN out.pdf.page_count = Some(Len(content.pdf[1]))
         ELSE out.pdf.page_count = None

\* the PDF enricher failed on a MediaBox entry after it stored the page count
C9_Witness ==
  pc = "seed" /\ EnricherFailed /\ enriched[1].v = "not a number"
    /\ IsSome(out.pdf.page_count)

\* prepare_media_previews returned the previews / returned an error
PreviewDone == pc \in { "ai", "merge" } \/ (pc = "ret" /\ ret[1].ok)
PreviewFailed == pc = "ret" /\ ~ret[1].ok

LooksImage ==
  \/ (IsSome(MimeGuessFromPath(file.path)) /\ MimeGuessFromPath(file.path)[1][1] = "image")
  \/ (IsSome(PathExtension(file.name))
        /\ ToLowercase(PathExtension(file.name)[1]) \in ImageExts)
LooksVideo ==
  \/ (IsSome(MimeGuessFromPath(file.path)) /\ MimeGuessFromPath(file.path)[1][1] = "video")
  \/ (IsSome(PathExtension(file.name))
        /\ ToLowercase(PathExtension(file.name)[1]) \in VideoExts)
LooksPdf ==
  \/ MimeGuessFromPath(file.path) = Some(<< "application", "pdf" >>)
  \/ (IsSome(PathExtension(file.name))
        /\ ToLowercase(PathExtension(file.name)[1]) = PdfExt)

RECURSIVE JpgByName(_)
JpgByName(entries) ==
  LET jpgs == { e \in entries : PathExtension(e.name) = Some(JpgExt) } IN
  IF jpgs = {} THEN << >>
  ELSE LET first == CHOOSE e \in jpgs :
                      \A f \in jpgs : f = e \/ StrLess(e.name, f.name)
       IN << first >> \o JpgByName(jpgs \ { first })

\* C11: the frames returned are at most 6, and they are the frames of the
\* lowest-numbered files of the scratch directory, in the order of the file
\* names, whatever the order of the directory listing.
C11_FramesInFileNameOrder ==
  (PreviewDone /\ IsSome(previews.video_frames_b64) /\ IsSome(content.frames)
     /\ previews.video_frames_b64[1] # << >>) =>
    LET byName == JpgByName(Range(content.frames[1]))
        fr == previews.video_frames_b64[1]
    IN
    /\ Len(fr) <= MaxFrames
    /\ Len(fr) = (IF Len(byName) > MaxFrames THEN MaxFrames ELSE Len(byName))
    /\ \A k \in 1..Len(fr) : fr[k] = Base64Encode(byName[k].bytes)

====
